---- MODULE Spec2Model ----
(***************************************************************************)
(* KML boundary parser (src/python/routes/kml_parser.py): the coordinate   *)
(* parser, the per-placemark geometry and property extraction, and the     *)
(* /kml/parse handler, as a state machine; concurrent /kml/parse requests;  *)
(* and the rate limiter of the geocoding route                             *)
(* (src/python/routes/geocode.py, enforce_rate_limit).                     *)
(*                                                                         *)
(* Text is a sequence of one-character strings, so that split(), strip()   *)
(* and float() are computed as the code computes them.  An XML element is  *)
(* a record [ns, tag, name, text, kids]: its namespace, its local tag, its *)
(* "name" attribute ("" when absent), its text (<<>> when None) and its    *)
(* children in document order.                                             *)
(***************************************************************************)
EXTENDS Integers, Sequences, FiniteSets, TLC

VARIABLES
    coord_string,   \* parse_coordinates: the argument
    coord_result,   \* parse_coordinates: what the call returned or raised
    placemark_in,   \* parse_polygon: the argument
    geometry_out,   \* parse_polygon: what the call returned
    props_in,       \* extract_properties: the argument
    props_out,      \* extract_properties: what the call returned
    file,           \* parse_kml: the upload, [filename, content]
    pc,             \* parse_kml: position in the handler
    kml_string,     \* parse_kml: the decoded text, [codec, doc]
    exc,            \* parse_kml: the exception in flight inside the outer try
    root,           \* parse_kml: the parsed tree
    metadata,       \* parse_kml: the metadata dict
    placemarks,     \* parse_kml: the list root.findall returned
    idx,            \* parse_kml: index of the next placemark of the for loop
    features,       \* parse_kml: the accumulating feature list
    response,       \* parse_kml: what the handler returned or raised
    calls,          \* concurrent parse_kml requests: of each [file, pc, response]
    env,            \* geocode: E2E_TESTING, whether redis.asyncio imported, Redis reachable
    now,            \* geocode: the clock, in ticks
    last_request_time,  \* geocode: _last_request_time
    rate_limit_lock,    \* geocode: _rate_limit_lock, [locked, waiters]
    redis,          \* geocode: _redis is not None
    redis_key,      \* geocode: expiry time of the key rate:geocode:lock in Redis
    callers         \* geocode: of each caller of enforce_rate_limit [pc, wake_at]

vars == <<coord_string, coord_result, placemark_in, geometry_out, props_in, props_out, file, pc, kml_string, exc,
          root, metadata, placemarks, idx, features, response, calls, env, now,
          last_request_time, rate_limit_lock, redis, redis_key, callers>>

coordVars == <<coord_string, coord_result>>
polygonVars == <<placemark_in, geometry_out>>
propertyVars == <<props_in, props_out>>
handlerVars ==
    <<file, pc, kml_string, exc, root, metadata, placemarks, idx, features, response>>

requestVars == <<calls>>
limiterVars == <<env, now, last_request_time, rate_limit_lock, redis, redis_key, callers>>

\* what the steps of one part leave alone: the variables of the other parts
notCoordVars == <<polygonVars, propertyVars, handlerVars, requestVars, limiterVars>>
notPolygonVars == <<coordVars, propertyVars, handlerVars, requestVars, limiterVars>>
notPropertyVars == <<coordVars, polygonVars, handlerVars, requestVars, limiterVars>>
notHandlerVars == <<coordVars, polygonVars, propertyVars, requestVars, limiterVars>>
notRequestVars == <<coordVars, polygonVars, propertyVars, handlerVars, limiterVars>>
notLimiterVars == <<coordVars, polygonVars, propertyVars, handlerVars, requestVars>>

-----------------------------------------------------------------------------
(* Bounds *)

\* longest coordinate string enumerated exhaustively
MaxLen == 5
\* most Polygon elements inside one MultiGeometry
MaxPolys == 2
\* most Placemark elements in one document
MaxPlacemarks == 2
\* most Data elements in one ExtendedData
MaxData == 2
\* concurrent parse_kml requests
MaxRequests == 2
\* concurrent callers of enforce_rate_limit
MaxCallers == 2
\* the last tick of the clock
MaxTime == 5

-----------------------------------------------------------------------------
(* Text *)

Digits == {"1", "2"}
Chars == Digits \cup {",", " ", "x"}

None == <<>>
Some(x) == <<x>>

RECURSIVE StringsUpTo(_)
StringsUpTo(n) ==
    IF n = 0 THEN {<<>>}
    ELSE LET shorter == StringsUpTo(n - 1)
         IN shorter \cup {Append(s, c) : s \in {t \in shorter : Len(t) = n - 1}, c \in Chars}

\* str.split(sep): every separator cuts, empty parts are kept, never an empty list
RECURSIVE SplitSep(_, _)
SplitSep(s, sep) ==
    IF s = <<>> THEN << <<>> >>
    ELSE LET rest == SplitSep(Tail(s), sep)
         IN IF Head(s) = sep
            THEN << <<>> >> \o rest
            ELSE << <<Head(s)>> \o Head(rest) >> \o Tail(rest)

\* str.strip(): leading and trailing whitespace removed
RECURSIVE LStrip(_)
LStrip(s) == IF s # <<>> /\ Head(s) = " " THEN LStrip(Tail(s)) ELSE s

RECURSIVE RStrip(_)
RStrip(s) ==
    IF s # <<>> /\ s[Len(s)] = " " THEN RStrip(SubSeq(s, 1, Len(s) - 1)) ELSE s

Strip(s) == LStrip(RStrip(s))

\* str.split() with no argument: runs of whitespace cut, empty parts are dropped
SplitWhitespace(s) == SelectSeq(SplitSep(s, " "), LAMBDA part : part # <<>>)

\* float(s) succeeds, over Chars, exactly on the non-empty digit strings
IsFloat(s) == s # <<>> /\ \A i \in 1..Len(s) : s[i] \in Digits

DigitVal(c) == IF c = "1" THEN 1 ELSE 2

RECURSIVE FloatOf(_)
FloatOf(s) ==
    IF s = <<>> THEN 0 ELSE 10 * FloatOf(SubSeq(s, 1, Len(s) - 1)) + DigitVal(s[Len(s)])

-----------------------------------------------------------------------------
(* parse_coordinates *)

Returned(v) == [raised |-> FALSE, exc |-> "", value |-> v]
Raised(e) == [raised |-> TRUE, exc |-> e, value |-> <<>>]

\* a mutant of ParseTriplet: a tuple that float() rejects is skipped
ParseTripletSkipsBadNumber(triplet) ==
    LET parts == SplitSep(triplet, ",")
    IN IF Len(parts) < 2 THEN [act |-> "continue", pair |-> <<>>]
       ELSE IF ~IsFloat(parts[1]) \/ ~IsFloat(parts[2])
            THEN [act |-> "continue", pair |-> <<>>]
            ELSE [act |-> "append", pair |-> <<FloatOf(parts[1]), FloatOf(parts[2])>>]

\* a mutant of ParseTriplet: a tuple with fewer than 2 components raises
ParseTripletRaisesOnShort(triplet) ==
    LET parts == SplitSep(triplet, ",")
    IN IF Len(parts) < 2 THEN [act |-> "raise", pair |-> <<>>]
       ELSE IF ~IsFloat(parts[1]) \/ ~IsFloat(parts[2])
            THEN [act |-> "raise", pair |-> <<>>]
            ELSE [act |-> "append", pair |-> <<FloatOf(parts[1]), FloatOf(parts[2])>>]

\* a mutant of ParseTriplet: the altitude is kept when it is a number
ParseTripletKeepsAltitude(triplet) ==
    LET parts == SplitSep(triplet, ",")
    IN IF Len(parts) < 2 THEN [act |-> "continue", pair |-> <<>>]
       ELSE IF ~IsFloat(parts[1]) \/ ~IsFloat(parts[2])
            THEN [act |-> "raise", pair |-> <<>>]
            ELSE IF Len(parts) > 2 /\ IsFloat(parts[3])
                 THEN [act |-> "append",
                       pair |-> <<FloatOf(parts[1]), FloatOf(parts[2]), FloatOf(parts[3])>>]
                 ELSE [act |-> "append", pair |-> <<FloatOf(parts[1]), FloatOf(parts[2])>>]

\* one pass of the for loop's body: continue, append [lng, lat], or float() raises
ParseTriplet(triplet) ==
    LET parts == SplitSep(triplet, ",")
    IN IF Len(parts) < 2 THEN [act |-> "continue", pair |-> <<>>]
       ELSE IF ~IsFloat(parts[1]) \/ ~IsFloat(parts[2])
            THEN [act |-> "raise", pair |-> <<>>]
            ELSE [act |-> "append", pair |-> <<FloatOf(parts[1]), FloatOf(parts[2])>>]

\* the for loop: the coordinates appended, or the ValueError float() raised
RECURSIVE CoordLoop(_, _)
CoordLoop(coord_triplets, coordinates) ==
    IF coord_triplets = <<>> THEN Returned(coordinates)
    ELSE LET step == ParseTriplet(Head(coord_triplets))
         IN CASE step.act = "continue" -> CoordLoop(Tail(coord_triplets), coordinates)
              [] step.act = "append" ->
                    CoordLoop(Tail(coord_triplets), Append(coordinates, step.pair))
              [] OTHER -> Raised("ValueError")

\* a mutant of parse_coordinates: the empty-list check is missing
parse_coordinates_no_empty_check(s) ==
    LET coord_triplets ==
            SelectSeq([i \in 1..Len(SplitWhitespace(s)) |-> Strip(SplitWhitespace(s)[i])],
                      LAMBDA c : c # <<>>)
    IN CoordLoop(coord_triplets, <<>>)

parse_coordinates(s) ==
    LET coord_triplets ==
            SelectSeq([i \in 1..Len(SplitWhitespace(s)) |-> Strip(SplitWhitespace(s)[i])],
                      LAMBDA c : c # <<>>)
        looped == CoordLoop(coord_triplets, <<>>)
    IN IF looped.raised THEN Raised("ValueError")
       ELSE IF looped.value = <<>> THEN Raised("ValueError")
       ELSE Returned(looped.value)

-----------------------------------------------------------------------------
(* Elements and the ElementTree lookups the parser uses *)

KML_NS == "http://www.opengis.net/kml/2.2"

Elem(ns, tag, name, text, kids) ==
    [ns |-> ns, tag |-> tag, name |-> name, text |-> text, kids |-> kids]

\* an element of the KML 2.2 namespace without attributes
E(tag, text, kids) == Elem(KML_NS, tag, "", text, kids)

\* elem.iter() over a list of siblings: every element and, after it, its subtree
RECURSIVE IterAll(_)
IterAll(es) ==
    IF es = <<>> THEN <<>>
    ELSE <<Head(es)>> \o IterAll(Head(es).kids) \o IterAll(Tail(es))

\* the proper descendants of e in document order ("//" never yields e itself)
Descendants(e) == IterAll(e.kids)

\* a mutant of IsKml: the tag alone decides, whatever the namespace
IsKmlAnyNamespace(e, tag) == e.tag = tag

IsKml(e, tag) == e.ns = KML_NS /\ e.tag = tag

First(s) == IF s = <<>> THEN None ELSE Some(Head(s))

\* a mutant of FindAllDescendants: the children only
FindAllDescendantsChildrenOnly(e, tag) ==
    SelectSeq(e.kids, LAMBDA d : d.ns = KML_NS /\ d.tag = tag)

\* elem.findall(".//kml:tag", KML_NS)
FindAllDescendants(e, tag) == SelectSeq(Descendants(e), LAMBDA d : IsKml(d, tag))

\* elem.find(".//kml:tag", KML_NS)
FindDescendant(e, tag) == First(FindAllDescendants(e, tag))

\* elem.findall("kml:tag", KML_NS)
FindAllChildren(e, tag) == SelectSeq(e.kids, LAMBDA d : IsKml(d, tag))

\* elem.find("kml:tag", KML_NS)
FindChild(e, tag) == First(FindAllChildren(e, tag))

RECURSIVE CoordinatesUnder(_)
CoordinatesUnder(outers) ==
    IF outers = <<>> THEN <<>>
    ELSE FindAllDescendants(Head(outers), "coordinates") \o CoordinatesUnder(Tail(outers))

\* elem.find(".//kml:outerBoundaryIs//kml:coordinates", KML_NS)
FindOuterCoordinates(e) ==
    First(CoordinatesUnder(FindAllDescendants(e, "outerBoundaryIs")))

-----------------------------------------------------------------------------
(* parse_polygon *)

Geometry(type, coordinates) == [type |-> type, coordinates |-> coordinates]

\* a mutant of MultiLoop: the first Polygon that does not parse ends the loop
RECURSIVE MultiLoopBreaks(_)
MultiLoopBreaks(polygon_elems) ==
    IF polygon_elems = <<>> THEN <<>>
    ELSE LET outer_boundary == FindOuterCoordinates(Head(polygon_elems))
         IN IF outer_boundary # None /\ outer_boundary[1].text # <<>>
            THEN LET coords == parse_coordinates(outer_boundary[1].text)
                 IN IF coords.raised THEN <<>>
                    ELSE <<<<coords.value>>>> \o MultiLoopBreaks(Tail(polygon_elems))
            ELSE <<>>

\* the MultiGeometry loop: one [coords] per Polygon whose outer ring parsed
RECURSIVE MultiLoop(_)
MultiLoop(polygon_elems) ==
    IF polygon_elems = <<>> THEN <<>>
    ELSE LET outer_boundary == FindOuterCoordinates(Head(polygon_elems))
             rest == MultiLoop(Tail(polygon_elems))
         IN IF outer_boundary # None /\ outer_boundary[1].text # <<>>
            THEN LET coords == parse_coordinates(outer_boundary[1].text)
                 IN IF coords.raised THEN rest ELSE <<<<coords.value>>>> \o rest
            ELSE rest

\* the single-Polygon branch
SinglePolygon(placemark) ==
    LET polygon == FindDescendant(placemark, "Polygon")
    IN IF polygon # None
       THEN LET outer_boundary == FindOuterCoordinates(polygon[1])
            IN IF outer_boundary # None /\ outer_boundary[1].text # <<>>
               THEN LET coords == parse_coordinates(outer_boundary[1].text)
                    IN IF coords.raised THEN None
                       ELSE Some(Geometry("Polygon", <<coords.value>>))
               ELSE None
       ELSE None

\* a mutant of parse_polygon: a MultiGeometry that yields no polygon ends the search
parse_polygon_multi_only(placemark) ==
    LET multi_geometry == FindDescendant(placemark, "MultiGeometry")
    IN IF multi_geometry # None
       THEN LET polygons == MultiLoop(FindAllDescendants(multi_geometry[1], "Polygon"))
            IN IF polygons # <<>> THEN Some(Geometry("MultiPolygon", polygons)) ELSE None
       ELSE SinglePolygon(placemark)

\* a mutant of parse_polygon: the "if polygons" test is missing
parse_polygon_no_polygons_check(placemark) ==
    LET multi_geometry == FindDescendant(placemark, "MultiGeometry")
    IN IF multi_geometry # None
       THEN Some(Geometry("MultiPolygon",
                          MultiLoop(FindAllDescendants(multi_geometry[1], "Polygon"))))
       ELSE SinglePolygon(placemark)

parse_polygon(placemark) ==
    LET multi_geometry == FindDescendant(placemark, "MultiGeometry")
    IN IF multi_geometry # None
       THEN LET polygons == MultiLoop(FindAllDescendants(multi_geometry[1], "Polygon"))
            IN IF polygons # <<>> THEN Some(Geometry("MultiPolygon", polygons))
               ELSE SinglePolygon(placemark)
       ELSE SinglePolygon(placemark)

-----------------------------------------------------------------------------
(* extract_properties *)

EmptyDict == [k \in {} |-> <<>>]

\* d[k] = v
Put(d, k, v) == [x \in DOMAIN d \cup {k} |-> IF x = k THEN v ELSE d[x]]

\* a mutant of DataLoop: a name that is already a key keeps its first value
RECURSIVE DataLoopKeepsFirst(_, _)
DataLoopKeepsFirst(data_elems, properties) ==
    IF data_elems = <<>> THEN properties
    ELSE LET data_elem == Head(data_elems)
             name_attr == data_elem.name
             value_elem == FindChild(data_elem, "value")
         IN IF /\ name_attr # "" /\ value_elem # None /\ value_elem[1].text # <<>>
               /\ name_attr \notin DOMAIN properties
            THEN DataLoopKeepsFirst(Tail(data_elems),
                     [x \in DOMAIN properties \cup {name_attr} |->
                         IF x = name_attr THEN Strip(value_elem[1].text) ELSE properties[x]])
            ELSE DataLoopKeepsFirst(Tail(data_elems), properties)

\* the loop over the Data children of ExtendedData
RECURSIVE DataLoop(_, _)
DataLoop(data_elems, properties) ==
    IF data_elems = <<>> THEN properties
    ELSE LET data_elem == Head(data_elems)
             name_attr == data_elem.name
             value_elem == FindChild(data_elem, "value")
         IN IF name_attr # "" /\ value_elem # None /\ value_elem[1].text # <<>>
            THEN DataLoop(Tail(data_elems),
                          Put(properties, name_attr, Strip(value_elem[1].text)))
            ELSE DataLoop(Tail(data_elems), properties)

\* the text of the child `tag` of e stored under `key` when it is there and not empty
PutChildText(d, e, tag, key) ==
    LET child == FindChild(e, tag)
    IN IF child # None /\ child[1].text # <<>> THEN Put(d, key, Strip(child[1].text)) ELSE d

\* a mutant of extract_properties: name and description are stored after the extended data
extract_properties_children_last(placemark) ==
    LET extended_data == FindChild(placemark, "ExtendedData")
        extended == IF extended_data # None
                    THEN DataLoop(FindAllChildren(extended_data[1], "Data"), EmptyDict)
                    ELSE EmptyDict
    IN PutChildText(PutChildText(extended, placemark, "name", "name"),
                    placemark, "description", "description")

extract_properties(placemark) ==
    LET named == PutChildText(EmptyDict, placemark, "name", "name")
        described == PutChildText(named, placemark, "description", "description")
        extended_data == FindChild(placemark, "ExtendedData")
    IN IF extended_data # None
       THEN DataLoop(FindAllChildren(extended_data[1], "Data"), described)
       ELSE described

-----------------------------------------------------------------------------
(* Inputs: ring texts, polygons, placemarks *)

R_two == <<"1", ",", "2", " ", "2", ",", "1", ",", "1">>    \* "1,2 2,1,1"
R_one == <<"2", ",", "2">>                                  \* "2,2"
R_short == <<"1">>                                          \* "1"
R_short_pair == <<"1", " ", "1", ",", "2">>                 \* "1 1,2"
R_bad == <<"x", ",", "1", " ", "1", ",", "2">>              \* "x,1 1,2"
R_blank == <<" ">>                                          \* " "
R_none == <<>>                                              \* no text
R_pair_short_pair == <<"1", ",", "2", " ", "1", " ", "2", ",", "1">>          \* "1,2 1 2,1"
R_short_bad_pair == <<"1", " ", "x", ",", "1", " ", "1", ",", "2">>           \* "1 x,1 1,2"

RingTexts ==
    {R_two, R_one, R_short, R_short_pair, R_bad, R_blank, R_none, R_pair_short_pair,
     R_short_bad_pair}

Coordinates(text) == E("coordinates", text, <<>>)
LinearRing(text) == E("LinearRing", <<>>, <<Coordinates(text)>>)

\* <Polygon><outerBoundaryIs><LinearRing><coordinates>text
Polygon(text) == E("Polygon", <<>>, <<E("outerBoundaryIs", <<>>, <<LinearRing(text)>>)>>)

\* a Polygon with a hole and no outer boundary
PolygonInnerOnly == E("Polygon", <<>>, <<E("innerBoundaryIs", <<>>, <<LinearRing(R_one)>>)>>)

PolygonSet == {Polygon(t) : t \in {R_two, R_one, R_short, R_bad, R_none}} \cup {PolygonInnerOnly}

RECURSIVE SeqsUpTo(_, _)
SeqsUpTo(S, n) ==
    IF n = 0 THEN {<<>>}
    ELSE LET shorter == SeqsUpTo(S, n - 1)
         IN shorter \cup {Append(q, x) : q \in {t \in shorter : Len(t) = n - 1}, x \in S}

MultiGeometry(polys) == E("MultiGeometry", <<>>, polys)
Placemark(kids) == E("Placemark", <<>>, kids)

\* a Placemark: maybe a Polygon, maybe a MultiGeometry of Polygons, maybe a Polygon
PlacemarkSet ==
    {Placemark(before \o multi \o after) :
        before \in SeqsUpTo(PolygonSet, 1),
        multi \in {<<>>} \cup {<<MultiGeometry(polys)>> : polys \in SeqsUpTo(PolygonSet, MaxPolys)},
        after \in SeqsUpTo(PolygonSet, 1)}

-----------------------------------------------------------------------------
(* The pure functions, applied to every input of their sets *)

NoElement == Elem("", "", "", <<>>, <<>>)
NotCalled == [raised |-> FALSE, exc |-> "not called", value |-> <<>>]

HandlerIdle ==
    /\ file = [filename |-> <<>>, utf8 |-> TRUE, content |-> [kind |-> "none", tree |-> NoElement]]
    /\ pc = "idle"
    /\ kml_string = None
    /\ exc = None
    /\ root = None
    /\ metadata = EmptyDict
    /\ placemarks = <<>>
    /\ idx = 0
    /\ features = <<>>
    /\ response = None

CoordsIdle == coord_string = <<>> /\ coord_result = NotCalled
PolygonIdle == placemark_in = NoElement /\ geometry_out = [called |-> FALSE, value |-> None]
PropertiesIdle == props_in = NoElement /\ props_out = [called |-> FALSE, value |-> EmptyDict]
RequestsIdle == calls = <<>>
LimiterIdle ==
    /\ env = [E2E_TESTING |-> TRUE, aioredis |-> FALSE, reachable |-> FALSE]
    /\ now = 0
    /\ last_request_time = None
    /\ rate_limit_lock = [locked |-> FALSE, waiters |-> <<>>]
    /\ redis = FALSE
    /\ redis_key = None
    /\ callers = <<>>
OthersIdle == RequestsIdle /\ LimiterIdle

InitCoords ==
    /\ coord_string \in StringsUpTo(MaxLen) \cup RingTexts
    /\ coord_result = NotCalled
    /\ PolygonIdle
    /\ PropertiesIdle
    /\ HandlerIdle
    /\ OthersIdle

CallParseCoordinates ==
    /\ coord_result.exc = "not called"
    /\ coord_result' = parse_coordinates(coord_string)
    /\ UNCHANGED <<coord_string, notCoordVars>>

NextCoords == CallParseCoordinates

SpecCoords == InitCoords /\ [][NextCoords]_vars

InitPolygon ==
    /\ placemark_in \in PlacemarkSet
    /\ geometry_out = [called |-> FALSE, value |-> None]
    /\ CoordsIdle
    /\ PropertiesIdle
    /\ HandlerIdle
    /\ OthersIdle

CallParsePolygon ==
    /\ ~geometry_out.called
    /\ geometry_out' = [called |-> TRUE, value |-> parse_polygon(placemark_in)]
    /\ UNCHANGED <<placemark_in, notPolygonVars>>

NextPolygon == CallParsePolygon

SpecPolygon == InitPolygon /\ [][NextPolygon]_vars

T_A == <<"A">>
T_padded == <<" ", "B", " ">>

Data(name, text) == Elem(KML_NS, "Data", name, <<>>, <<E("value", text, <<>>)>>)

\* <Data name=...> without a value child
DataNoValue(name) == Elem(KML_NS, "Data", name, <<>>, <<>>)

DataSet ==
    {Data(name, text) : name \in {"DISTRICT", "name", "description", ""},
                        text \in {T_A, T_padded, <<>>}}
    \cup {DataNoValue(name) : name \in {"DISTRICT", "name", "description", ""}}

\* a Placemark: maybe a name, maybe a description, maybe ExtendedData with Data children
PropertyPlacemarks ==
    {Placemark(name \o description \o extended) :
        name \in {<<>>, <<E("name", <<"C">>, <<>>)>>, <<E("name", <<>>, <<>>)>>},
        description \in {<<>>, <<E("description", <<"C", " ">>, <<>>)>>},
        extended \in {<<>>} \cup {<<E("ExtendedData", <<>>, datas)>> :
                                      datas \in SeqsUpTo(DataSet, MaxData)}}

InitProperties ==
    /\ props_in \in PropertyPlacemarks
    /\ props_out = [called |-> FALSE, value |-> EmptyDict]
    /\ CoordsIdle
    /\ PolygonIdle
    /\ HandlerIdle
    /\ OthersIdle

CallExtractProperties ==
    /\ ~props_out.called
    /\ props_out' = [called |-> TRUE, value |-> extract_properties(props_in)]
    /\ UNCHANGED <<props_in, notPropertyVars>>

NextProperties == CallExtractProperties

SpecProperties == InitProperties /\ [][NextProperties]_vars

-----------------------------------------------------------------------------
(* Inputs: documents and uploads *)

\* a named placemark with a Polygon and extended data
PM_polygon ==
    Placemark(<<E("name", T_padded, <<>>),
                E("ExtendedData", <<>>, <<Data("DISTRICT", T_A)>>),
                Polygon(R_two)>>)
\* a MultiGeometry of which one Polygon parses and one does not
PM_multi == Placemark(<<E("name", T_A, <<>>), MultiGeometry(<<Polygon(R_one), Polygon(R_short)>>)>>)
\* a MultiGeometry of which no Polygon parses
PM_multi_failed == Placemark(<<MultiGeometry(<<Polygon(R_short), Polygon(R_bad)>>)>>)
\* no geometry at all
PM_none == Placemark(<<E("name", T_A, <<>>), E("description", T_padded, <<>>)>>)
\* a Polygon whose ring holds no valid tuple
PM_bad_polygon == Placemark(<<Polygon(R_blank)>>)
\* an empty MultiGeometry beside a Polygon
PM_beside == Placemark(<<MultiGeometry(<<>>), Polygon(R_short_pair)>>)

PlacemarkSamples == {PM_polygon, PM_multi, PM_multi_failed, PM_none, PM_bad_polygon, PM_beside}

\* the name and description children of a Document
DocumentMeta(fields) ==
    (IF "name" \in fields THEN <<E("name", T_padded, <<>>)>> ELSE <<>>)
    \o (IF "description" \in fields THEN <<E("description", T_A, <<>>)>> ELSE <<>>)

Kml(kids) == E("kml", <<>>, kids)

\* another namespace, and the same element outside the KML 2.2 namespace
OTHER_NS == "http://earth.google.com/kml/2.1"
InNamespace(ns, e) == [e EXCEPT !.ns = ns]

\* the Polygon and the MultiGeometry are outside the namespace
PM_foreign_geometry ==
    Placemark(<<InNamespace("", Polygon(R_one)),
                InNamespace(OTHER_NS, MultiGeometry(<<Polygon(R_two)>>))>>)
\* the outerBoundaryIs of the Polygon is outside the namespace
PM_foreign_ring ==
    Placemark(<<E("Polygon", <<>>,
                  <<InNamespace("", E("outerBoundaryIs", <<>>, <<LinearRing(R_one)>>))>>)>>)
\* the coordinates of the first Polygon are outside the namespace
PM_foreign_coordinates ==
    Placemark(<<E("Polygon", <<>>,
                  <<E("outerBoundaryIs", <<>>,
                      <<E("LinearRing", <<>>,
                          <<InNamespace(OTHER_NS, Coordinates(R_one))>>)>>)>>),
                Polygon(R_two)>>)
\* name, description and ExtendedData are outside the namespace
PM_foreign_properties ==
    Placemark(<<InNamespace("", E("name", T_A, <<>>)),
                InNamespace(OTHER_NS, E("description", T_A, <<>>)),
                InNamespace("", E("ExtendedData", <<>>, <<Data("DISTRICT", T_A)>>)),
                Polygon(R_one)>>)
\* one Data and one value are outside the namespace
PM_foreign_data ==
    Placemark(<<E("ExtendedData", <<>>,
                  <<InNamespace("", Data("DISTRICT", T_A)),
                    Elem(KML_NS, "Data", "ZONE", <<>>,
                         <<InNamespace(OTHER_NS, E("value", T_A, <<>>))>>),
                    Data("AREA", T_padded)>>),
                Polygon(R_one)>>)

ForeignSamples ==
    {PM_foreign_geometry, PM_foreign_ring, PM_foreign_coordinates, PM_foreign_properties,
     PM_foreign_data, InNamespace("", PM_polygon), InNamespace(OTHER_NS, PM_multi), PM_polygon}

\* a second Document, with other texts
SecondDocument ==
    E("Document", <<>>, <<E("name", <<"C">>, <<>>), E("description", <<"C">>, <<>>)>>)

Trees ==
    LET lists == SeqsUpTo(PlacemarkSamples, MaxPlacemarks)
        foreign == SeqsUpTo(ForeignSamples, MaxPlacemarks)
    IN  \* <kml><Document> name? description? placemarks
        {Kml(<<E("Document", <<>>, DocumentMeta(fields) \o pms)>>) :
            fields \in SUBSET {"name", "description"}, pms \in lists}
        \* <kml> placemarks, no Document
        \cup {Kml(pms) : pms \in lists}
        \* <kml><Document><name/><Folder> placemarks
        \cup {Kml(<<E("Document", <<>>, DocumentMeta({"name"}) \o <<E("Folder", <<>>, pms)>>)>>) :
                pms \in lists}
        \* the root element is itself a Placemark
        \cup PlacemarkSamples
        \* <kml><Document> name? description? placemarks </Document><Document>
        \cup {Kml(<<E("Document", <<>>, DocumentMeta(fields) \o pms), SecondDocument>>) :
                fields \in SUBSET {"name", "description"}, pms \in lists}
        \* <kml><Document><name></name><description> placemarks
        \cup {Kml(<<E("Document", <<>>,
                      <<E("name", <<>>, <<>>), E("description", T_A, <<>>)>> \o pms)>>) :
                pms \in lists}
        \* <kml><Document> with a name outside the namespace, and such placemarks
        \cup {Kml(<<E("Document", <<>>,
                      <<InNamespace("", E("name", T_A, <<>>)), E("description", T_A, <<>>)>>
                      \o pms)>>) : pms \in foreign}
        \* <kml> and a Document outside the namespace
        \cup {Kml(<<InNamespace(OTHER_NS,
                                E("Document", <<>>, DocumentMeta({"name", "description"}) \o pms))>>) :
                pms \in foreign}

Documents ==
    {[kind |-> "tree", tree |-> t] : t \in Trees}
    \cup {[kind |-> "malformed", tree |-> NoElement], [kind |-> "entities", tree |-> NoElement]}

F_kml == <<"a", ".", "k", "m", "l">>
F_KML == <<"a", ".", "K", "M", "L">>
F_txt == <<"a", ".", "t", "x", "t">>
F_none == <<>>

Filenames == {F_kml, F_KML, F_txt, F_none}

\* str.lower()
LowerChar(c) ==
    CASE c = "K" -> "k" [] c = "M" -> "m" [] c = "L" -> "l" [] OTHER -> c

Lower(s) == [i \in 1..Len(s) |-> LowerChar(s[i])]

\* str.endswith(suffix)
EndsWith(s, suffix) ==
    Len(s) >= Len(suffix) /\ SubSeq(s, Len(s) - Len(suffix) + 1, Len(s)) = suffix

-----------------------------------------------------------------------------
(* parse_kml *)

HTTPException(status_code, detail) ==
    [kind |-> "raise", status_code |-> status_code, detail |-> detail,
     success |-> FALSE, features |-> <<>>, error |-> None, metadata |-> None]

KMLParseResponse(success, feats, error, meta) ==
    [kind |-> "return", status_code |-> 200, detail |-> "",
     success |-> success, features |-> feats, error |-> error, metadata |-> meta]

DistrictFeature(properties, geometry) ==
    [type |-> "Feature", properties |-> properties, geometry |-> geometry]

InvalidFileType == "Invalid file type. Please upload a KML file."
InvalidKml == "Invalid KML file"
Unexpected == "An unexpected error occurred while parsing KML file"
NoPlacemarksError == "No placemarks found in KML file"
NoBoundariesError == "No valid district boundaries found in KML file"

\* metadata if metadata else None
\* no response yet
NoResponse ==
    [kind |-> "none", status_code |-> 0, detail |-> "",
     success |-> FALSE, features |-> <<>>, error |-> None, metadata |-> None]

MetadataOrNone(meta) == IF DOMAIN meta # {} THEN Some(meta) ELSE None

Init ==
    /\ file \in [filename : Filenames, utf8 : BOOLEAN, content : Documents]
    /\ pc = "validate"
    /\ kml_string = None
    /\ exc = None
    /\ root = None
    /\ metadata = EmptyDict
    /\ placemarks = <<>>
    /\ idx = 0
    /\ features = <<>>
    /\ response = None
    /\ CoordsIdle
    /\ PolygonIdle
    /\ PropertiesIdle
    /\ OthersIdle

\* the filename is missing or does not end in .kml: 400, before the try
RejectFilename ==
    /\ pc = "validate"
    /\ file.filename = <<>> \/ ~EndsWith(Lower(file.filename), <<".", "k", "m", "l">>)
    /\ response' = Some(HTTPException(400, InvalidFileType))
    /\ pc' = "done"
    /\ UNCHANGED <<file, kml_string, exc, root, metadata, placemarks, idx, features>>
    /\ UNCHANGED notHandlerVars

AcceptFilename ==
    /\ pc = "validate"
    /\ ~(file.filename = <<>> \/ ~EndsWith(Lower(file.filename), <<".", "k", "m", "l">>))
    /\ pc' = "read"
    /\ UNCHANGED <<file, kml_string, exc, root, metadata, placemarks, idx, features, response>>
    /\ UNCHANGED notHandlerVars

\* content.decode('utf-8'), and 'latin-1' when that raises UnicodeDecodeError
ReadAndDecode ==
    /\ pc = "read"
    /\ kml_string' = Some([codec |-> IF file.utf8 THEN "utf-8" ELSE "latin-1",
                           doc |-> file.content])
    /\ pc' = "parse_xml"
    /\ UNCHANGED <<file, exc, root, metadata, placemarks, idx, features, response>>
    /\ UNCHANGED notHandlerVars

\* ET.fromstring returns the tree
ParseXmlOk ==
    /\ pc = "parse_xml"
    /\ kml_string[1].doc.kind = "tree"
    /\ root' = Some(kml_string[1].doc.tree)
    /\ pc' = "metadata"
    /\ UNCHANGED <<file, kml_string, exc, metadata, placemarks, idx, features, response>>
    /\ UNCHANGED notHandlerVars

\* a mutant of ParseXmlParseError: no inner except clause, the ParseError propagates
ParseXmlParseErrorUncaught ==
    /\ pc = "parse_xml"
    /\ kml_string[1].doc.kind = "malformed"
    /\ exc' = Some([type |-> "ParseError", status_code |-> 0, detail |-> ""])
    /\ pc' = "except"
    /\ UNCHANGED <<file, kml_string, root, metadata, placemarks, idx, features, response>>
    /\ UNCHANGED notHandlerVars

\* ET.fromstring raises ET.ParseError: the inner except raises HTTPException(400)
ParseXmlParseError ==
    /\ pc = "parse_xml"
    /\ kml_string[1].doc.kind = "malformed"
    /\ exc' = Some([type |-> "HTTPException", status_code |-> 400, detail |-> InvalidKml])
    /\ pc' = "except"
    /\ UNCHANGED <<file, kml_string, root, metadata, placemarks, idx, features, response>>
    /\ UNCHANGED notHandlerVars

\* ET.fromstring raises defusedxml's EntitiesForbidden, which is no ParseError
ParseXmlForbidden ==
    /\ pc = "parse_xml"
    /\ kml_string[1].doc.kind = "entities"
    /\ exc' = Some([type |-> "EntitiesForbidden", status_code |-> 0, detail |-> ""])
    /\ pc' = "except"
    /\ UNCHANGED <<file, kml_string, root, metadata, placemarks, idx, features, response>>
    /\ UNCHANGED notHandlerVars

\* except HTTPException: raise
ReraiseHTTPException ==
    /\ pc = "except"
    /\ exc[1].type = "HTTPException"
    /\ response' = Some(HTTPException(exc[1].status_code, exc[1].detail))
    /\ pc' = "done"
    /\ UNCHANGED <<file, kml_string, exc, root, metadata, placemarks, idx, features>>
    /\ UNCHANGED notHandlerVars

\* except Exception: raise HTTPException(500)
RaiseUnexpected ==
    /\ pc = "except"
    /\ exc[1].type # "HTTPException"
    /\ response' = Some(HTTPException(500, Unexpected))
    /\ pc' = "done"
    /\ UNCHANGED <<file, kml_string, exc, root, metadata, placemarks, idx, features>>
    /\ UNCHANGED notHandlerVars

\* a mutant of DocumentMetadata: the last Document element is read
DocumentMetadataLastDocument(tree) ==
    LET documents == FindAllDescendants(tree, "Document")
    IN IF documents # <<>>
       THEN PutChildText(PutChildText(EmptyDict, documents[Len(documents)],
                                      "name", "document_name"),
                         documents[Len(documents)], "description", "document_description")
       ELSE EmptyDict

\* the metadata of the first Document element
DocumentMetadata(tree) ==
    LET document == FindDescendant(tree, "Document")
    IN IF document # None
       THEN PutChildText(PutChildText(EmptyDict, document[1], "name", "document_name"),
                         document[1], "description", "document_description")
       ELSE EmptyDict

ExtractMetadata ==
    /\ pc = "metadata"
    /\ metadata' = DocumentMetadata(root[1])
    /\ pc' = "placemarks"
    /\ UNCHANGED <<file, kml_string, exc, root, placemarks, idx, features, response>>
    /\ UNCHANGED notHandlerVars

\* a mutant of NoPlacemarksResponse: the metadata is left out
NoPlacemarksResponseNoMetadata(meta) ==
    KMLParseResponse(FALSE, <<>>, Some(NoPlacemarksError), None)

NoPlacemarksResponse(meta) ==
    KMLParseResponse(FALSE, <<>>, Some(NoPlacemarksError), MetadataOrNone(meta))

\* a mutant of NoBoundariesResponse: the other error string
NoBoundariesResponseWrongError(meta) ==
    KMLParseResponse(FALSE, <<>>, Some(NoPlacemarksError), MetadataOrNone(meta))

NoBoundariesResponse(meta) ==
    KMLParseResponse(FALSE, <<>>, Some(NoBoundariesError), MetadataOrNone(meta))

\* a mutant of SuccessResponse: the error string is set
SuccessResponseWithError(feats, meta) ==
    KMLParseResponse(TRUE, feats, Some(NoBoundariesError), MetadataOrNone(meta))

SuccessResponse(feats, meta) == KMLParseResponse(TRUE, feats, None, MetadataOrNone(meta))

\* root.findall(".//kml:Placemark") is empty: the first return
ReturnNoPlacemarks ==
    /\ pc = "placemarks"
    /\ FindAllDescendants(root[1], "Placemark") = <<>>
    /\ placemarks' = <<>>
    /\ response' = Some(NoPlacemarksResponse(metadata))
    /\ pc' = "done"
    /\ UNCHANGED <<file, kml_string, exc, root, metadata, idx, features>>
    /\ UNCHANGED notHandlerVars

EnterLoop ==
    /\ pc = "placemarks"
    /\ FindAllDescendants(root[1], "Placemark") # <<>>
    /\ placemarks' = FindAllDescendants(root[1], "Placemark")
    /\ idx' = 1
    /\ pc' = "loop"
    /\ UNCHANGED <<file, kml_string, exc, root, metadata, features, response>>
    /\ UNCHANGED notHandlerVars

\* a mutant of SkipPlacemark: break instead of continue
SkipPlacemarkBreaks ==
    /\ pc = "loop"
    /\ idx <= Len(placemarks)
    /\ parse_polygon(placemarks[idx]) = None
    /\ idx' = Len(placemarks) + 1
    /\ UNCHANGED <<file, pc, kml_string, exc, root, metadata, placemarks, features, response>>
    /\ UNCHANGED notHandlerVars

\* geometry is None: continue
SkipPlacemark ==
    /\ pc = "loop"
    /\ idx <= Len(placemarks)
    /\ parse_polygon(placemarks[idx]) = None
    /\ idx' = idx + 1
    /\ UNCHANGED <<file, pc, kml_string, exc, root, metadata, placemarks, features, response>>
    /\ UNCHANGED notHandlerVars

\* a geometry: its properties are extracted and the feature appended
EmitFeature ==
    /\ pc = "loop"
    /\ idx <= Len(placemarks)
    /\ parse_polygon(placemarks[idx]) # None
    /\ features' = Append(features,
                          DistrictFeature(extract_properties(placemarks[idx]),
                                          parse_polygon(placemarks[idx])[1]))
    /\ idx' = idx + 1
    /\ UNCHANGED <<file, pc, kml_string, exc, root, metadata, placemarks, response>>
    /\ UNCHANGED notHandlerVars

\* after the loop, not features: the second return
ReturnNoBoundaries ==
    /\ pc = "loop"
    /\ idx > Len(placemarks)
    /\ features = <<>>
    /\ response' = Some(NoBoundariesResponse(metadata))
    /\ pc' = "done"
    /\ UNCHANGED <<file, kml_string, exc, root, metadata, placemarks, idx, features>>
    /\ UNCHANGED notHandlerVars

\* after the loop, with features: the third return
ReturnSuccess ==
    /\ pc = "loop"
    /\ idx > Len(placemarks)
    /\ features # <<>>
    /\ response' = Some(SuccessResponse(features, metadata))
    /\ pc' = "done"
    /\ UNCHANGED <<file, kml_string, exc, root, metadata, placemarks, idx, features>>
    /\ UNCHANGED notHandlerVars

Next ==
    \/ RejectFilename
    \/ AcceptFilename
    \/ ReadAndDecode
    \/ ParseXmlOk
    \/ ParseXmlParseError
    \/ ParseXmlForbidden
    \/ ReraiseHTTPException
    \/ RaiseUnexpected
    \/ ExtractMetadata
    \/ ReturnNoPlacemarks
    \/ EnterLoop
    \/ SkipPlacemark
    \/ EmitFeature
    \/ ReturnNoBoundaries
    \/ ReturnSuccess

Spec == Init /\ [][Next]_vars

-----------------------------------------------------------------------------
(* Claims about parse_coordinates, under SpecCoords *)

Range(q) == {q[i] : i \in 1..Len(q)}

\* the whitespace-separated tokens of the ring text
Tokens(s) == SplitWhitespace(s)

\* a token with fewer than 2 comma-separated components: it holds no comma
IsShortToken(t) == \A i \in 1..Len(t) : t[i] # ","

\* a token whose first two components are numbers
IsNumberPair(t) ==
    /\ ~IsShortToken(t)
    /\ IsFloat(SplitSep(t, ",")[1])
    /\ IsFloat(SplitSep(t, ",")[2])

\* a token with 2 or more components of which the first or the second is no number
IsBadNumberToken(t) == ~IsShortToken(t) /\ ~IsNumberPair(t)

PairOf(t) == <<FloatOf(SplitSep(t, ",")[1]), FloatOf(SplitSep(t, ",")[2])>>

PairsOf(tokens) == [i \in 1..Len(tokens) |-> PairOf(tokens[i])]

\* the tokens left once the short ones are skipped
RemainingTokens(s) == SelectSeq(Tokens(s), LAMBDA t : ~IsShortToken(t))

CoordCalled == coord_result.exc # "not called"

HasShortToken(s) == \E t \in Range(Tokens(s)) : IsShortToken(t)

\* C8 as stated: in a ring with a token of fewer than 2 components, that token is
\* skipped, a returned list is the pairs of the remaining tokens in their order, and
\* the ring raises ValueError only when no token is a valid coordinate.
C8_ShortTokenSkipped_AsStated ==
    (CoordCalled /\ HasShortToken(coord_string)) =>
        /\ ~coord_result.raised => coord_result.value = PairsOf(RemainingTokens(coord_string))
        /\ coord_result.raised => ~\E t \in Range(Tokens(coord_string)) : IsNumberPair(t)

\* C8 as amended: in a ring with a token of fewer than 2 components, that token is
\* skipped, a returned list is the pairs of the remaining tokens in their order, and
\* the ring raises ValueError exactly when no token remains or a remaining token has a
\* first or second component that is not a number.
C8_ShortTokenSkipped ==
    (CoordCalled /\ HasShortToken(coord_string)) =>
        /\ ~coord_result.raised => coord_result.value = PairsOf(RemainingTokens(coord_string))
        /\ coord_result.raised <=>
              \/ RemainingTokens(coord_string) = <<>>
              \/ \E t \in Range(RemainingTokens(coord_string)) : IsBadNumberToken(t)

\* "1,2 1 2,1" returned [[1,2],[2,1]]: the short token between two tuples was skipped
C8_Witness ==
    /\ CoordCalled
    /\ coord_string = R_pair_short_pair
    /\ coord_result = Returned(<< <<1, 2>>, <<2, 1>> >>)

\* C9 as stated: a tuple that cannot be turned into a pair, one whose first two
\* components are not numbers included, is skipped; a ring with at least one valid
\* tuple returns the pairs of its valid tuples.
C9_BadTupleAbsorbed_AsStated ==
    (CoordCalled /\ \E t \in Range(Tokens(coord_string)) : IsNumberPair(t)) =>
        /\ ~coord_result.raised
        /\ coord_result.value = PairsOf(SelectSeq(Tokens(coord_string), IsNumberPair))

\* C9 as amended: only a tuple with fewer than 2 components is skipped; a tuple with 2
\* or more components whose first or second component is not a number makes the whole
\* ring raise ValueError, valid tuples or not; without such a tuple, a ring with a
\* valid tuple returns the pairs of its valid tuples in order.
C9_BadNumberFailsRing ==
    CoordCalled =>
        /\ (\E t \in Range(Tokens(coord_string)) : IsBadNumberToken(t)) =>
                coord_result = Raised("ValueError")
        /\ (/\ \E t \in Range(Tokens(coord_string)) : IsNumberPair(t)
            /\ ~\E t \in Range(Tokens(coord_string)) : IsBadNumberToken(t)) =>
                coord_result = Returned(PairsOf(SelectSeq(Tokens(coord_string), IsNumberPair)))

\* a ring with a valid tuple and a tuple that is no number raised
C9_Witness ==
    /\ CoordCalled
    /\ \E t \in Range(Tokens(coord_string)) : IsNumberPair(t)
    /\ \E t \in Range(Tokens(coord_string)) : IsBadNumberToken(t)
    /\ coord_result.raised

-----------------------------------------------------------------------------
(* Claims about parse_polygon, under SpecPolygon *)

\* the outer ring of a Polygon parses: the first coordinates element under one of its
\* outerBoundaryIs elements has text that parse_coordinates accepts
RingParses(polygon) ==
    LET outer == FindOuterCoordinates(polygon)
    IN outer # None /\ outer[1].text # <<>> /\ ~parse_coordinates(outer[1].text).raised

RingOf(polygon) == parse_coordinates(FindOuterCoordinates(polygon)[1].text).value

HasMultiGeometry(pm) == \E d \in Range(Descendants(pm)) : IsKml(d, "MultiGeometry")

\* the Polygon elements inside the first MultiGeometry of the placemark
PolygonsInMulti(pm) ==
    LET multis == SelectSeq(Descendants(pm), LAMBDA d : IsKml(d, "MultiGeometry"))
    IN SelectSeq(Descendants(multis[1]), LAMBDA d : IsKml(d, "Polygon"))

MultiHasParseable(pm) == \E p \in Range(PolygonsInMulti(pm)) : RingParses(p)

\* the Polygon elements of the placemark, in document order
PolygonsOf(pm) == SelectSeq(Descendants(pm), LAMBDA d : IsKml(d, "Polygon"))

\* C1 as stated: a placemark with a MultiGeometry descendant gets a MultiPolygon when a
\* Polygon inside the MultiGeometry has a parseable outer ring and no geometry when
\* none has; a Polygon geometry is returned only without a MultiGeometry descendant.
C1_MultiGeometryOnly_AsStated ==
    (geometry_out.called /\ HasMultiGeometry(placemark_in)) =>
        IF MultiHasParseable(placemark_in)
        THEN geometry_out.value # None /\ geometry_out.value[1].type = "MultiPolygon"
        ELSE geometry_out.value = None

\* C1 as amended: a placemark with a MultiGeometry descendant gets a MultiPolygon when
\* a Polygon inside its first MultiGeometry has a parseable outer ring; when none has,
\* the single-Polygon branch runs as for a placemark without MultiGeometry: a Polygon
\* geometry of the placemark's first Polygon descendant when its outer ring parses, no
\* geometry otherwise.
C1_MultiGeometryFirst ==
    geometry_out.called =>
        IF HasMultiGeometry(placemark_in) /\ MultiHasParseable(placemark_in)
        THEN geometry_out.value # None /\ geometry_out.value[1].type = "MultiPolygon"
        ELSE IF PolygonsOf(placemark_in) # <<>> /\ RingParses(PolygonsOf(placemark_in)[1])
             THEN geometry_out.value =
                      Some(Geometry("Polygon", <<RingOf(PolygonsOf(placemark_in)[1])>>))
             ELSE geometry_out.value = None

\* a placemark with a MultiGeometry of which no Polygon parses got a Polygon geometry
C1_Witness ==
    /\ geometry_out.called
    /\ HasMultiGeometry(placemark_in)
    /\ PolygonsInMulti(placemark_in) # <<>>
    /\ ~MultiHasParseable(placemark_in)
    /\ geometry_out.value # None
    /\ geometry_out.value[1].type = "Polygon"

-----------------------------------------------------------------------------
(* Claims about parse_kml, under Spec *)

\* the handler returned a KMLParseResponse
HasReturned == response # None /\ response[1].kind = "return"

\* the outer rings of a geometry: the one of a Polygon, one per polygon of a MultiPolygon
OuterRings(geometry) ==
    IF geometry.type = "Polygon" THEN geometry.coordinates
    ELSE [i \in 1..Len(geometry.coordinates) |-> geometry.coordinates[i][1]]

\* every Placemark element of the document, the root element included
AllPlacemarks(tree) == SelectSeq(IterAll(<<tree>>), LAMBDA d : IsKml(d, "Placemark"))

\* the Placemark elements below the root element
PlacemarksBelowRoot(tree) ==
    IF IsKml(tree, "Placemark") THEN Tail(AllPlacemarks(tree)) ELSE AllPlacemarks(tree)

\* one feature per placemark of the list that has a geometry, in the list's order
FeaturesOf(pms) ==
    LET kept == SelectSeq(pms, LAMBDA pm : parse_polygon(pm) # None)
    IN [i \in 1..Len(kept) |->
            DistrictFeature(extract_properties(kept[i]), parse_polygon(kept[i])[1])]

\* C2: every feature of a returned response has a geometry of which every outer ring
\* holds at least one [lng, lat] pair.
C2_RingsNonEmpty ==
    HasReturned =>
        \A f \in Range(response[1].features) :
            /\ Len(OuterRings(f.geometry)) >= 1
            /\ \A ring \in Range(OuterRings(f.geometry)) :
                  Len(ring) >= 1 /\ \A c \in Range(ring) : Len(c) = 2

\* a response with a Polygon feature and a MultiPolygon feature
C2_Witness ==
    /\ HasReturned
    /\ \E f \in Range(response[1].features) : f.geometry.type = "Polygon"
    /\ \E f \in Range(response[1].features) : f.geometry.type = "MultiPolygon"

\* C3 as stated: the features of a returned response are one feature per placemark of
\* the document that has a geometry, in document order.
C3_FeaturesInOrder_AsStated ==
    HasReturned => response[1].features = FeaturesOf(AllPlacemarks(root[1]))

\* C3 as amended: the features of a returned response are one feature per placemark
\* below the document's root element that has a geometry, in document order; a
\* placemark without geometry is left out and the later ones are still processed.
C3_FeaturesInOrder ==
    /\ HasReturned => response[1].features = FeaturesOf(PlacemarksBelowRoot(root[1]))
    /\ pc = "loop" =>
          features = FeaturesOf(SubSeq(PlacemarksBelowRoot(root[1]), 1, idx - 1))

\* a placemark without geometry came before one with a geometry, which is the feature
C3_Witness ==
    /\ HasReturned
    /\ Len(placemarks) = 2
    /\ parse_polygon(placemarks[1]) = None
    /\ parse_polygon(placemarks[2]) # None
    /\ Len(response[1].features) = 1

\* C4: no feature has a MultiPolygon geometry with no polygon, and the placemark of a
\* MultiPolygon feature has a Polygon that parses inside its MultiGeometry.
C4_NoEmptyMultiPolygon ==
    /\ \A f \in Range(features) :
          f.geometry.type = "MultiPolygon" => Len(f.geometry.coordinates) >= 1
    /\ HasReturned =>
          LET kept == SelectSeq(PlacemarksBelowRoot(root[1]),
                                LAMBDA pm : parse_polygon(pm) # None)
          IN /\ Len(response[1].features) = Len(kept)
             /\ \A i \in 1..Len(kept) :
                   LET g == response[1].features[i].geometry
                   IN g.type = "MultiPolygon" =>
                        /\ Len(g.coordinates) >= 1
                        /\ HasMultiGeometry(kept[i]) /\ MultiHasParseable(kept[i])

\* a MultiGeometry of which no Polygon parses gave no feature, another gave a MultiPolygon
C4_Witness ==
    /\ HasReturned
    /\ \E pm \in Range(placemarks) :
          HasMultiGeometry(pm) /\ PolygonsInMulti(pm) # <<>> /\ ~MultiHasParseable(pm)
    /\ Len(response[1].features) = 1
    /\ response[1].features[1].geometry.type = "MultiPolygon"

\* C5: in a returned response success is true exactly when there are features and
\* exactly when error is null; without success the features are empty and error is set.
C5_SuccessIffFeatures ==
    HasReturned =>
        /\ response[1].success <=> response[1].features # <<>>
        /\ response[1].success <=> response[1].error = None
        /\ ~response[1].success => response[1].features = <<>> /\ response[1].error # None

\* a successful response with two features and no error
C5_Witness == HasReturned /\ response[1].success /\ Len(response[1].features) = 2

\* C6: a parsed document without any Placemark element ends in a returned response with
\* success false, no features, the no-placemarks error, and the metadata when a
\* document name or description was extracted.
C6_NoPlacemarks ==
    (pc = "done" /\ root # None /\ AllPlacemarks(root[1]) = <<>>) =>
        /\ HasReturned
        /\ ~response[1].success
        /\ response[1].features = <<>>
        /\ response[1].error = Some(NoPlacemarksError)
        /\ response[1].metadata = IF DOMAIN metadata # {} THEN Some(metadata) ELSE None

\* no placemark, and the response carries the document's name
C6_Witness ==
    /\ HasReturned
    /\ AllPlacemarks(root[1]) = <<>>
    /\ response[1].metadata # None
    /\ "document_name" \in DOMAIN response[1].metadata[1]

\* the text of the name child of the first Document element, when it is there
DocumentName(tree) ==
    LET documents == SelectSeq(Descendants(tree), LAMBDA d : IsKml(d, "Document"))
        names == IF documents = <<>> THEN <<>>
                 ELSE SelectSeq(documents[1].kids, LAMBDA d : IsKml(d, "name"))
    IN IF names # <<>> /\ names[1].text # <<>> THEN Some(Strip(names[1].text)) ELSE None

NoBoundariesResult(tree) ==
    /\ HasReturned
    /\ ~response[1].success
    /\ response[1].features = <<>>
    /\ response[1].error = Some(NoBoundariesError)
    /\ response[1].error # Some(NoPlacemarksError)
    /\ DocumentName(tree) # None =>
          /\ response[1].metadata # None
          /\ "document_name" \in DOMAIN response[1].metadata[1]
          /\ response[1].metadata[1]["document_name"] = DocumentName(tree)[1]

\* C7 as stated: a parsed document with at least one placemark, none of which has a
\* valid geometry, ends in a returned response with success false, no features, the
\* no-valid-boundaries error and the metadata of a Document name.
C7_NoBoundaries_AsStated ==
    (/\ pc = "done" /\ root # None
     /\ AllPlacemarks(root[1]) # <<>>
     /\ \A pm \in Range(AllPlacemarks(root[1])) : parse_polygon(pm) = None) =>
        NoBoundariesResult(root[1])

\* C7 as amended: a parsed document with at least one placemark below its root
\* element, none of which has a valid geometry, ends in a returned response with
\* success false, no features, the no-valid-boundaries error and the metadata of a
\* Document name.
C7_NoBoundaries ==
    (/\ pc = "done" /\ root # None
     /\ PlacemarksBelowRoot(root[1]) # <<>>
     /\ \A pm \in Range(PlacemarksBelowRoot(root[1])) : parse_polygon(pm) = None) =>
        NoBoundariesResult(root[1])

\* placemarks without geometry under a named Document, and the name is in the response
C7_Witness ==
    /\ pc = "done" /\ root # None
    /\ Len(PlacemarksBelowRoot(root[1])) = 2
    /\ \A pm \in Range(PlacemarksBelowRoot(root[1])) : parse_polygon(pm) = None
    /\ DocumentName(root[1]) # None
    /\ response[1].metadata # None

\* C10: text that is not well-formed XML ends in HTTPException 400 "Invalid KML file":
\* never a returned response, never a 500.
C10_MalformedIs400 ==
    /\ (response # None /\ file.content.kind = "malformed") =>
          response[1].kind = "raise" /\ response[1].status_code = 400
    /\ (pc = "done" /\ kml_string # None /\ kml_string[1].doc.kind = "malformed") =>
          response = Some(HTTPException(400, InvalidKml))

\* malformed text was parsed and the 400 raised
C10_Witness ==
    /\ pc = "done"
    /\ kml_string # None /\ kml_string[1].doc.kind = "malformed"
    /\ exc # None /\ exc[1].type = "HTTPException"
    /\ response = Some(HTTPException(400, InvalidKml))

-----------------------------------------------------------------------------
(* More claims about parse_polygon, under SpecPolygon *)

\* the text is a non-empty sequence of lng,lat[,alt] tuples with numbers for lng and lat
IsTupleText(text) ==
    /\ Tokens(text) # <<>>
    /\ \A t \in Range(Tokens(text)) : IsNumberPair(t)

\* the text of the outer boundary of a Polygon, <<>> when there is none
OuterText(polygon) ==
    LET outer == FindOuterCoordinates(polygon)
    IN IF outer = None THEN <<>> ELSE outer[1].text

\* C13: a placemark with one Polygon and no MultiGeometry whose outer-boundary text is
\* a sequence of lng,lat,alt tuples gets a Polygon geometry whose coordinates are the
\* one-element list of the ring: the [lng, lat] pairs in the order of the tuples,
\* without the altitude.
C13_SinglePolygonRing ==
    (/\ geometry_out.called
     /\ ~HasMultiGeometry(placemark_in)
     /\ Len(PolygonsOf(placemark_in)) = 1
     /\ IsTupleText(OuterText(PolygonsOf(placemark_in)[1]))) =>
        /\ geometry_out.value # None
        /\ geometry_out.value[1].type = "Polygon"
        /\ geometry_out.value[1].coordinates =
              << PairsOf(Tokens(OuterText(PolygonsOf(placemark_in)[1]))) >>

\* "1,2 2,1,1" gave [[[1,2],[2,1]]]
C13_Witness ==
    /\ geometry_out.called
    /\ ~HasMultiGeometry(placemark_in)
    /\ Len(PolygonsOf(placemark_in)) = 1
    /\ OuterText(PolygonsOf(placemark_in)[1]) = R_two
    /\ geometry_out.value = Some(Geometry("Polygon", << << <<1, 2>>, <<2, 1>> >> >>))

\* C14: a MultiPolygon has one entry per Polygon of the MultiGeometry whose outer ring
\* parsed, in document order, each the ring in a one-element list; a Polygon whose ring
\* is missing or does not parse is left out without touching the others.
C14_MultiPolygonEntries ==
    (geometry_out.called /\ HasMultiGeometry(placemark_in)) =>
        LET parsed == SelectSeq(PolygonsInMulti(placemark_in), RingParses)
        IN /\ parsed # <<>> =>
                geometry_out.value =
                    Some(Geometry("MultiPolygon",
                                  [i \in 1..Len(parsed) |-> <<RingOf(parsed[i])>>]))
           /\ (geometry_out.value # None /\ geometry_out.value[1].type = "MultiPolygon") =>
                Len(geometry_out.value[1].coordinates) = Len(parsed)

\* two Polygons that parse gave two entries in document order
C14_Witness ==
    /\ geometry_out.called
    /\ PolygonsOf(placemark_in) = <<Polygon(R_two), Polygon(R_one)>>
    /\ PolygonsInMulti(placemark_in) = <<Polygon(R_two), Polygon(R_one)>>
    /\ geometry_out.value =
          Some(Geometry("MultiPolygon",
                        << << << <<1, 2>>, <<2, 1>> >> >>, << << <<2, 2>> >> >> >>))

-----------------------------------------------------------------------------
(* Claims about extract_properties, under SpecProperties *)

\* the extended-data entries of a placemark: the Data children of its ExtendedData
\* child that have a name attribute and a value child with text
DataEntries(pm) ==
    LET extended == SelectSeq(pm.kids, LAMBDA d : IsKml(d, "ExtendedData"))
        datas == IF extended = <<>> THEN <<>>
                 ELSE SelectSeq(extended[1].kids, LAMBDA d : IsKml(d, "Data"))
    IN SelectSeq(datas, LAMBDA d :
           /\ d.name # ""
           /\ \E v \in Range(d.kids) : IsKml(v, "value")
           /\ SelectSeq(d.kids, LAMBDA v : IsKml(v, "value"))[1].text # <<>>)

EntryValue(d) == Strip(SelectSeq(d.kids, LAMBDA v : IsKml(v, "value"))[1].text)

\* the last entry of the list with that name
LastEntry(entries, name) ==
    entries[CHOOSE i \in 1..Len(entries) :
                /\ entries[i].name = name
                /\ \A j \in (i + 1)..Len(entries) : entries[j].name # name]

\* the text of the first child `tag` of the placemark, <<>> without one
ChildText(pm, tag) ==
    LET children == SelectSeq(pm.kids, LAMBDA d : IsKml(d, tag))
    IN IF children = <<>> THEN <<>> ELSE children[1].text

\* C12: every extended-data entry with a name and a value text is in the properties
\* under its name with its trimmed value text, and of several entries with one name
\* the last in document order gives the value.
C12_ExtendedDataLastWins ==
    props_out.called =>
        \A d \in Range(DataEntries(props_in)) :
            /\ d.name \in DOMAIN props_out.value
            /\ props_out.value[d.name] = EntryValue(LastEntry(DataEntries(props_in), d.name))

\* two entries named DISTRICT with different values: the second is in the result
C12_Witness ==
    /\ props_out.called
    /\ Len(DataEntries(props_in)) = 2
    /\ DataEntries(props_in)[1].name = "DISTRICT"
    /\ DataEntries(props_in)[2].name = "DISTRICT"
    /\ EntryValue(DataEntries(props_in)[1]) = <<"A">>
    /\ EntryValue(DataEntries(props_in)[2]) = <<"B">>
    /\ props_out.value["DISTRICT"] = <<"B">>

\* C19: an extended-data entry named name or description replaces the value of the
\* placemark's own name or description child; the child's trimmed text is in the
\* properties only when no entry has that name.
C19_ExtendedDataOverridesName ==
    props_out.called =>
        \A key \in {"name", "description"} :
            IF \E d \in Range(DataEntries(props_in)) : d.name = key
            THEN /\ key \in DOMAIN props_out.value
                 /\ props_out.value[key] = EntryValue(LastEntry(DataEntries(props_in), key))
            ELSE IF ChildText(props_in, key) # <<>>
                 THEN /\ key \in DOMAIN props_out.value
                      /\ props_out.value[key] = Strip(ChildText(props_in, key))
                 ELSE key \notin DOMAIN props_out.value

\* the name child says C, an entry named name says B, and B is in the result
C19_Witness ==
    /\ props_out.called
    /\ ChildText(props_in, "name") = <<"C">>
    /\ \E d \in Range(DataEntries(props_in)) : d.name = "name" /\ EntryValue(d) = <<"B">>
    /\ ChildText(props_in, "description") = <<"C", " ">>
    /\ ~\E d \in Range(DataEntries(props_in)) : d.name = "description"
    /\ props_out.value["name"] = <<"B">>
    /\ props_out.value["description"] = <<"C">>

-----------------------------------------------------------------------------
(* More claims about parse_kml, under Spec *)

\* the Document elements below the root element, in document order
DocumentsOf(tree) == SelectSeq(Descendants(tree), LAMBDA d : IsKml(d, "Document"))

\* the element has a child `tag` with text
HasChildWithText(e, tag) == \E d \in Range(e.kids) : IsKml(d, tag) /\ d.text # <<>>

\* the metadata the first Document element stands for
MetadataOfFirstDocument(tree) ==
    LET documents == DocumentsOf(tree)
        keys == IF documents = <<>> THEN {}
                ELSE {k \in {"name", "description"} : HasChildWithText(documents[1], k)}
        key_of == [document_name |-> "name", document_description |-> "description"]
    IN [k \in {m \in DOMAIN key_of : key_of[m] \in keys} |->
            Strip(ChildText(documents[1], key_of[k]))]

\* C15: a parsed document always ends in a returned response, with or without a
\* Document element and its children; on each of the three return paths the metadata
\* of the response holds document_name and document_description exactly when the first
\* Document element (below the root element) has a name, a description child with
\* text, with the trimmed text as value, and is null when it has neither.
C15_MetadataOfFirstDocument ==
    (pc = "done" /\ root # None) =>
        /\ HasReturned
        /\ metadata = MetadataOfFirstDocument(root[1])
        /\ response[1].metadata =
               IF DOMAIN MetadataOfFirstDocument(root[1]) = {} THEN None
               ELSE Some(MetadataOfFirstDocument(root[1]))

\* two Document elements, the first with a description only: a successful response
\* carries that description and not the second Document's name
C15_Witness ==
    /\ HasReturned
    /\ response[1].success
    /\ Len(DocumentsOf(root[1])) = 2
    /\ HasChildWithText(DocumentsOf(root[1])[2], "name")
    /\ response[1].metadata = Some([document_description |-> <<"A">>])

\* C16 as stated: the placemarks enumerated are all the Placemark elements of the
\* document, the root element included, and the no-placemarks error is returned only
\* for a document without any Placemark element.
C16_EveryPlacemark_AsStated ==
    (pc = "done" /\ HasReturned) =>
        /\ placemarks = AllPlacemarks(root[1])
        /\ response[1].error = Some(NoPlacemarksError) => AllPlacemarks(root[1]) = <<>>

\* C16: the placemarks enumerated are the Placemark elements below the root element,
\* at any depth and in document order; each of them has been taken through the loop
\* when the handler returns; the no-placemarks error is returned exactly when there is
\* no Placemark element below the root element.
C16_EveryPlacemarkBelowRoot ==
    /\ (pc \in {"loop", "done"} /\ root # None) =>
            placemarks = PlacemarksBelowRoot(root[1])
    /\ (pc = "done" /\ HasReturned) =>
        /\ placemarks # <<>> => idx = Len(placemarks) + 1
        /\ Len(response[1].features) =
               Cardinality({i \in 1..Len(placemarks) : parse_polygon(placemarks[i]) # None})
        /\ response[1].error = Some(NoPlacemarksError)
               <=> PlacemarksBelowRoot(root[1]) = <<>>

\* two placemarks in a Folder of the Document, both enumerated and both with a feature
C16_Witness ==
    /\ HasReturned
    /\ \E d \in Range(root[1].kids) :
           IsKml(d, "Document") /\ \E f \in Range(d.kids) :
               f.tag = "Folder" /\ Len(f.kids) = 2 /\ placemarks = f.kids
    /\ Len(response[1].features) = 2

\* the tags the parser looks up
LookupTags ==
    {"Document", "Placemark", "MultiGeometry", "Polygon", "outerBoundaryIs", "coordinates",
     "name", "description", "ExtendedData", "Data", "value"}

\* the tree with every element outside the namespace renamed to a tag nobody looks up
RECURSIVE Renamed(_)
Renamed(e) ==
    [e EXCEPT !.tag = IF e.ns # KML_NS /\ e.tag \in LookupTags THEN "other" ELSE e.tag,
              !.kids = [i \in 1..Len(e.kids) |-> Renamed(e.kids[i])]]

\* an element of the tree is outside the namespace and has a tag the parser looks up
HasForeign(tree) ==
    \E d \in Range(IterAll(<<tree>>)) : d.ns # KML_NS /\ d.tag \in LookupTags

\* the response parse_kml returns for a parsed tree
ResponseOf(tree) ==
    LET meta == DocumentMetadata(tree)
        pms == FindAllDescendants(tree, "Placemark")
    IN IF pms = <<>> THEN NoPlacemarksResponse(meta)
       ELSE IF FeaturesOf(pms) = <<>> THEN NoBoundariesResponse(meta)
       ELSE SuccessResponse(FeaturesOf(pms), meta)

\* C17: the response for a document is the response for the same document with its
\* elements outside the KML 2.2 namespace renamed, so no such element is found by a
\* lookup; and a document whose Placemark elements are all outside the namespace gets
\* the no-placemarks result.
C17_ForeignElementsIgnored ==
    (pc = "done" /\ HasReturned) =>
        /\ response[1] = ResponseOf(Renamed(root[1]))
        /\ (\A d \in Range(IterAll(<<root[1]>>)) : d.tag = "Placemark" => d.ns # KML_NS)
               => /\ ~response[1].success
                  /\ response[1].features = <<>>
                  /\ response[1].error = Some(NoPlacemarksError)

\* a document with Placemark elements, all outside the namespace, got the
\* no-placemarks result
C17_Witness ==
    /\ HasReturned
    /\ \E d \in Range(IterAll(<<root[1]>>)) : d.tag = "Placemark"
    /\ \A d \in Range(IterAll(<<root[1]>>)) : d.tag = "Placemark" => d.ns # KML_NS
    /\ response[1].error = Some(NoPlacemarksError)

\* a feature whose placemark has a name, an ExtendedData and a Polygon outside the
\* namespace, none of which is in the feature
C17_WitnessProperties ==
    /\ HasReturned
    /\ placemarks = <<PM_foreign_properties, PM_foreign_data>>
    /\ Len(response[1].features) = 2
    /\ response[1].features[1].properties = EmptyDict
    /\ DOMAIN response[1].features[2].properties = {"AREA"}

\* C18 as stated: a document refused for the entities it declares ends in
\* HTTPException 400, like text that is not well-formed XML.
C18_ForbiddenIs400 ==
    (pc = "done" /\ kml_string # None /\ kml_string[1].doc.kind = "entities") =>
        response[1].kind = "raise" /\ response[1].status_code = 400

\* what the handler does with it: the 500 of the except Exception clause
C18_ForbiddenIs500 ==
    (pc = "done" /\ kml_string # None /\ kml_string[1].doc.kind = "entities") =>
        response = Some(HTTPException(500, Unexpected))

-----------------------------------------------------------------------------
(* Concurrent requests to /kml/parse.  A request runs on the event loop: it *)
(* is suspended at its one await, file.read(), and nowhere else.             *)

Requests == 1..MaxRequests

\* a mutant of InitialFeatures: one list for all requests, a module-level global
RECURSIVE LeftOver(_)
LeftOver(n) ==
    IF n = 0 THEN <<>>
    ELSE LeftOver(n - 1)
         \o (IF calls[n].pc = "done" THEN calls[n].response.features ELSE <<>>)

InitialFeaturesShared(r) == LeftOver(MaxRequests)

\* features: List[DistrictFeature] = [], a local of the call
InitialFeatures(r) == <<>>

\* the for loop over the placemarks: the features it appends to feats
RECURSIVE LoopFeatures(_, _)
LoopFeatures(pms, feats) ==
    IF pms = <<>> THEN feats
    ELSE LET geometry == parse_polygon(Head(pms))
         IN IF geometry = None THEN LoopFeatures(Tail(pms), feats)
            ELSE LoopFeatures(Tail(pms),
                     Append(feats, DistrictFeature(extract_properties(Head(pms)),
                                                   geometry[1])))

\* the handler from the metadata to its return, for a parsed tree
ParseTree(tree, feats) ==
    LET meta == DocumentMetadata(tree)
        pms == FindAllDescendants(tree, "Placemark")
    IN IF pms = <<>> THEN NoPlacemarksResponse(meta)
       ELSE IF LoopFeatures(pms, feats) = <<>> THEN NoBoundariesResponse(meta)
       ELSE SuccessResponse(LoopFeatures(pms, feats), meta)

Upload(name, doc) == [filename |-> name, utf8 |-> TRUE, content |-> doc]

RequestFiles ==
    {Upload(F_kml, [kind |-> "tree", tree |-> t]) :
        t \in {Kml(<<E("Document", <<>>, DocumentMeta({"name"}) \o <<PM_polygon, PM_multi>>)>>),
               Kml(<<PM_none, PM_polygon>>),
               Kml(<<PM_none>>),
               Kml(<<>>)}}
    \cup {Upload(F_kml, [kind |-> "malformed", tree |-> NoElement]),
          Upload(F_kml, [kind |-> "entities", tree |-> NoElement]),
          Upload(F_txt, [kind |-> "tree", tree |-> Kml(<<PM_polygon>>)])}

InitRequests ==
    /\ calls \in [Requests -> {[file |-> f, pc |-> "validate", response |-> NoResponse] :
                                  f \in RequestFiles}]
    /\ CoordsIdle
    /\ PolygonIdle
    /\ PropertiesIdle
    /\ HandlerIdle
    /\ LimiterIdle

\* the filename check raises the 400
RequestRejected(r) ==
    /\ calls[r].pc = "validate"
    /\ \/ calls[r].file.filename = <<>>
       \/ ~EndsWith(Lower(calls[r].file.filename), <<".", "k", "m", "l">>)
    /\ calls' = [calls EXCEPT ![r].pc = "done",
                              ![r].response = HTTPException(400, InvalidFileType)]
    /\ UNCHANGED notRequestVars

\* the filename check passes and the request awaits file.read()
RequestAwaitsRead(r) ==
    /\ calls[r].pc = "validate"
    /\ ~(\/ calls[r].file.filename = <<>>
         \/ ~EndsWith(Lower(calls[r].file.filename), <<".", "k", "m", "l">>))
    /\ calls' = [calls EXCEPT ![r].pc = "read"]
    /\ UNCHANGED notRequestVars

\* file.read() returns and the handler runs to its end without another await
RequestCompletes(r) ==
    /\ calls[r].pc = "read"
    /\ LET doc == calls[r].file.content
       IN calls' = [calls EXCEPT
                ![r].pc = "done",
                ![r].response =
                    IF doc.kind = "malformed" THEN HTTPException(400, InvalidKml)
                    ELSE IF doc.kind = "entities" THEN HTTPException(500, Unexpected)
                    ELSE ParseTree(doc.tree, InitialFeatures(r))]
    /\ UNCHANGED notRequestVars

NextRequests ==
    \E r \in Requests :
        \/ RequestRejected(r)
        \/ RequestAwaitsRead(r)
        \/ RequestCompletes(r)

SpecRequests == InitRequests /\ [][NextRequests]_vars

-----------------------------------------------------------------------------
(* Claims about concurrent requests, under SpecRequests *)

RequestDone(r) == calls[r].pc = "done"

-----------------------------------------------------------------------------
(* enforce_rate_limit (src/python/routes/geocode.py).  Time is counted in   *)
(* ticks of half a second; a sleep ends no earlier than asked.              *)

Callers == 1..MaxCallers

\* the 1.0 of the limiter, one second, in ticks
Second == 2

\* the callers inside the async with _rate_limit_lock block
InLockBlock == {"check", "sleeping", "record"}

\* a mutant of LockIsFree: the lock never makes a caller wait
LockIsFreeAlways == TRUE

\* asyncio.Lock.acquire takes the lock at once: not locked and nobody waiting
LockIsFree == ~rate_limit_lock.locked /\ rate_limit_lock.waiters = <<>>

\* the key rate:geocode:lock exists in Redis
KeyIsLive == redis_key # None /\ now < redis_key[1]

At(c, where) == callers[c].pc = where
Goto(c, where) == callers' = [callers EXCEPT ![c].pc = where]

InitLimiter ==
    /\ env \in [E2E_TESTING : BOOLEAN, aioredis : BOOLEAN, reachable : BOOLEAN]
    /\ now = 0
    /\ last_request_time = None
    /\ rate_limit_lock = [locked |-> FALSE, waiters |-> <<>>]
    /\ redis = FALSE
    /\ redis_key = None
    /\ callers = [c \in Callers |-> [pc |-> "start", wake_at |-> 0]]
    /\ CoordsIdle
    /\ PolygonIdle
    /\ PropertiesIdle
    /\ HandlerIdle
    /\ RequestsIdle

\* the clock advances
Tick ==
    /\ now < MaxTime
    /\ now' = now + 1
    /\ UNCHANGED <<env, last_request_time, rate_limit_lock, redis, redis_key, callers>>
    /\ UNCHANGED notLimiterVars

\* E2E_TESTING is "true": return
E2EBypass(c) ==
    /\ At(c, "start")
    /\ env.E2E_TESTING
    /\ Goto(c, "returned")
    /\ UNCHANGED <<env, now, last_request_time, rate_limit_lock, redis, redis_key>>
    /\ UNCHANGED notLimiterVars

\* _get_redis: _redis is not None, it is returned as it is
GetRedisCached(c) ==
    /\ At(c, "start")
    /\ ~env.E2E_TESTING
    /\ redis
    /\ Goto(c, "redis_set")
    /\ UNCHANGED <<env, now, last_request_time, rate_limit_lock, redis, redis_key>>
    /\ UNCHANGED notLimiterVars

\* _get_redis: the import of redis.asyncio failed, None is returned
GetRedisNotImported(c) ==
    /\ At(c, "start")
    /\ ~env.E2E_TESTING
    /\ ~redis
    /\ ~env.aioredis
    /\ Goto(c, "lock")
    /\ UNCHANGED <<env, now, last_request_time, rate_limit_lock, redis, redis_key>>
    /\ UNCHANGED notLimiterVars

\* _get_redis: _redis = aioredis.from_url(...), then await _redis.ping()
GetRedisConnect(c) ==
    /\ At(c, "start")
    /\ ~env.E2E_TESTING
    /\ ~redis
    /\ env.aioredis
    /\ redis' = TRUE
    /\ Goto(c, "ping")
    /\ UNCHANGED <<env, now, last_request_time, rate_limit_lock, redis_key>>
    /\ UNCHANGED notLimiterVars

\* the ping answers: return _redis
PingOk(c) ==
    /\ At(c, "ping")
    /\ env.reachable
    /\ Goto(c, IF redis THEN "redis_set" ELSE "lock")
    /\ UNCHANGED <<env, now, last_request_time, rate_limit_lock, redis, redis_key>>
    /\ UNCHANGED notLimiterVars

\* the ping raises: _redis = None, return None
PingFails(c) ==
    /\ At(c, "ping")
    /\ ~env.reachable
    /\ redis' = FALSE
    /\ Goto(c, "lock")
    /\ UNCHANGED <<env, now, last_request_time, rate_limit_lock, redis_key>>
    /\ UNCHANGED notLimiterVars

\* r.set(key, "1", ex=1, nx=True) sets the key: return
RedisSetLocked(c) ==
    /\ At(c, "redis_set")
    /\ env.reachable
    /\ ~KeyIsLive
    /\ redis_key' = Some(now + Second)
    /\ Goto(c, "returned")
    /\ UNCHANGED <<env, now, last_request_time, rate_limit_lock, redis>>
    /\ UNCHANGED notLimiterVars

\* r.set finds the key: on to r.ttl
RedisSetBusy(c) ==
    /\ At(c, "redis_set")
    /\ env.reachable
    /\ KeyIsLive
    /\ Goto(c, "redis_ttl")
    /\ UNCHANGED <<env, now, last_request_time, rate_limit_lock, redis, redis_key>>
    /\ UNCHANGED notLimiterVars

\* r.set on a client whose server does not answer raises out of enforce_rate_limit
RedisSetRaises(c) ==
    /\ At(c, "redis_set")
    /\ ~env.reachable
    /\ Goto(c, "raised")
    /\ UNCHANGED <<env, now, last_request_time, rate_limit_lock, redis, redis_key>>
    /\ UNCHANGED notLimiterVars

\* ttl = r.ttl(key) in whole seconds, -2 for a key that is gone;
\* asyncio.sleep(min(wait_time, 1.0)), where 0.05 s is less than a tick
RedisTtl(c) ==
    /\ At(c, "redis_ttl")
    /\ \E ttl \in IF ~KeyIsLive THEN {-2}
                  ELSE IF redis_key[1] - now >= Second THEN {1} ELSE {0, 1} :
           callers' = [callers EXCEPT
               ![c].pc = "redis_sleep",
               ![c].wake_at = now + (IF ttl < 0 THEN Second
                                     ELSE IF ttl = 0 THEN 0 ELSE Second)]
    /\ UNCHANGED <<env, now, last_request_time, rate_limit_lock, redis, redis_key>>
    /\ UNCHANGED notLimiterVars

\* the sleep of the Redis loop is over: while True again
RedisWake(c) ==
    /\ At(c, "redis_sleep")
    /\ now >= callers[c].wake_at
    /\ callers' = [callers EXCEPT ![c].pc = "redis_set", ![c].wake_at = 0]
    /\ UNCHANGED <<env, now, last_request_time, rate_limit_lock, redis, redis_key>>
    /\ UNCHANGED notLimiterVars

\* async with _rate_limit_lock: the lock is free
AcquireFree(c) ==
    /\ At(c, "lock")
    /\ LockIsFree
    /\ rate_limit_lock' = [rate_limit_lock EXCEPT !.locked = TRUE]
    /\ Goto(c, "check")
    /\ UNCHANGED <<env, now, last_request_time, redis, redis_key>>
    /\ UNCHANGED notLimiterVars

\* async with _rate_limit_lock: the caller joins the waiters
AcquireWait(c) ==
    /\ At(c, "lock")
    /\ ~LockIsFree
    /\ rate_limit_lock' = [rate_limit_lock EXCEPT !.waiters = Append(@, c)]
    /\ Goto(c, "waiting")
    /\ UNCHANGED <<env, now, last_request_time, redis, redis_key>>
    /\ UNCHANGED notLimiterVars

\* the released lock goes to the first waiter
LockGranted(c) ==
    /\ At(c, "waiting")
    /\ ~rate_limit_lock.locked
    /\ rate_limit_lock.waiters # <<>>
    /\ Head(rate_limit_lock.waiters) = c
    /\ rate_limit_lock' = [locked |-> TRUE, waiters |-> Tail(rate_limit_lock.waiters)]
    /\ Goto(c, "check")
    /\ UNCHANGED <<env, now, last_request_time, redis, redis_key>>
    /\ UNCHANGED notLimiterVars

\* _last_request_time is None, or elapsed >= 1.0: no sleep
CheckNoSleep(c) ==
    /\ At(c, "check")
    /\ IF last_request_time = None THEN TRUE
       ELSE now - last_request_time[1] >= Second
    /\ Goto(c, "record")
    /\ UNCHANGED <<env, now, last_request_time, rate_limit_lock, redis, redis_key>>
    /\ UNCHANGED notLimiterVars

\* elapsed < 1.0: await asyncio.sleep(1.0 - elapsed)
CheckSleep(c) ==
    /\ At(c, "check")
    /\ last_request_time # None
    /\ now - last_request_time[1] < Second
    /\ callers' = [callers EXCEPT
           ![c].pc = "sleeping",
           ![c].wake_at = now + (Second - (now - last_request_time[1]))]
    /\ UNCHANGED <<env, now, last_request_time, rate_limit_lock, redis, redis_key>>
    /\ UNCHANGED notLimiterVars

\* the sleep is over
SleepWake(c) ==
    /\ At(c, "sleeping")
    /\ now >= callers[c].wake_at
    /\ callers' = [callers EXCEPT ![c].pc = "record", ![c].wake_at = 0]
    /\ UNCHANGED <<env, now, last_request_time, rate_limit_lock, redis, redis_key>>
    /\ UNCHANGED notLimiterVars

\* _last_request_time = datetime.now().timestamp(), and the block releases the lock
Record(c) ==
    /\ At(c, "record")
    /\ last_request_time' = Some(now)
    /\ rate_limit_lock' = [rate_limit_lock EXCEPT !.locked = FALSE]
    /\ Goto(c, "returned")
    /\ UNCHANGED <<env, now, redis, redis_key>>
    /\ UNCHANGED notLimiterVars

NextLimiter ==
    \/ Tick
    \/ \E c \in Callers :
        \/ E2EBypass(c)
        \/ GetRedisCached(c)
        \/ GetRedisNotImported(c)
        \/ GetRedisConnect(c)
        \/ PingOk(c)
        \/ PingFails(c)
        \/ RedisSetLocked(c)
        \/ RedisSetBusy(c)
        \/ RedisSetRaises(c)
        \/ RedisTtl(c)
        \/ RedisWake(c)
        \/ AcquireFree(c)
        \/ AcquireWait(c)
        \/ LockGranted(c)
        \/ CheckNoSleep(c)
        \/ CheckSleep(c)
        \/ SleepWake(c)
        \/ Record(c)

SpecLimiter == InitLimiter /\ [][NextLimiter]_vars

-----------------------------------------------------------------------------
(* Claim about enforce_rate_limit, under SpecLimiter *)

\* Redis is unavailable and E2E_TESTING is not "true"
LocalLimiterInUse == ~env.E2E_TESTING /\ ~(env.aioredis /\ env.reachable)

Holders == {c \in Callers : callers[c].pc \in InLockBlock}

\* at most one caller is inside the lock block, and the lock is then locked
OneHolder == Cardinality(Holders) <= 1 /\ (Holders # {} => rate_limit_lock.locked)

\* a caller that returned went through the limiter: a timestamp is recorded
ReturnedThroughLimiter ==
    \A c \in Callers : callers[c].pc = "returned" => last_request_time # None

\* a step that records a timestamp records one at least a second after the last
RecordedASecondLater ==
    (last_request_time # None /\ last_request_time' # last_request_time)
        => last_request_time'[1] >= last_request_time[1] + Second

\* C20: with Redis unavailable and E2E_TESTING not "true", at most one caller at a
\* time is inside the _rate_limit_lock block, every caller that returns has gone
\* through it, and each timestamp written to _last_request_time is at least one
\* second later than the one it replaces, in every interleaving of the callers and
\* the clock.
C20_OneCallerPerSecond ==
    /\ [](LocalLimiterInUse => OneHolder /\ ReturnedThroughLimiter)
    /\ [][LocalLimiterInUse => RecordedASecondLater]_vars

\* the Redis ping failed, every caller has returned, and the last timestamp is one
\* second after the clock's start, where the first caller found no timestamp
C20_Witness ==
    /\ LocalLimiterInUse
    /\ env.aioredis
    /\ \A c \in Callers : callers[c].pc = "returned"
    /\ last_request_time = Some(Second)
    /\ now = Second

====
